---- MODULE Spec2Model ----
(***************************************************************************)
(* Model of the circulars synchroniser (package main): the paginated       *)
(* fetch (getCirculars), the row extraction (parseCirculars,               *)
(* findNodeWithContext), the transactional write (insertCirculars), the    *)
(* sorted-diff cleanup (deleteRemovedCirculars) and the scheduling loop    *)
(* of main.                                                                *)
(*                                                                         *)
(* Text is a tuple of one-character strings, so that substring search,     *)
(* number parsing and date parsing are computed character by character.    *)
(* A markup node is a record [nil, Data]; nil = TRUE is Go's nil pointer,  *)
(* and reading a field through it is a run-time panic.                     *)
(***************************************************************************)
EXTENDS Integers, Sequences, FiniteSets, TLC

\* ------------------------------------------------------------------ text

Digits == <<"0", "1", "2", "3", "4", "5", "6", "7", "8", "9">>

IsDigit(ch) == \E i \in 1..10 : Digits[i] = ch

DigitVal(ch) == (CHOOSE i \in 1..10 : Digits[i] = ch) - 1

DigitChar(n) == Digits[n + 1]

\* strings.Contains(s, substr)
Contains(s, substr) ==
    \E i \in 1..(Len(s) - Len(substr) + 1) :
        SubSeq(s, i, i + Len(substr) - 1) = substr

RECURSIVE NumVal(_)
\* the value of a run of decimal digits
NumVal(s) ==
    IF s = <<>> THEN 0
    ELSE 10 * NumVal(SubSeq(s, 1, Len(s) - 1)) + DigitVal(s[Len(s)])

\* strconv.ParseUint(s, 10, 64): the empty string, a sign or any character
\* that is no digit is a syntax error. The identifiers of the model have at
\* most three digits, far below the 64-bit range error.
ParseUint(s) ==
    IF s # <<>> /\ \A i \in 1..Len(s) : IsDigit(s[i])
    THEN [err |-> FALSE, val |-> NumVal(s)]
    ELSE [err |-> TRUE, val |-> 0]

\* ------------------------------------------------------------------ dates

IsLeap(y) == (y % 4 = 0) /\ ((y % 100 # 0) \/ (y % 400 = 0))

DaysIn(m, y) ==
    IF m = 2 THEN (IF IsLeap(y) THEN 29 ELSE 28)
    ELSE IF m \in {4, 6, 9, 11} THEN 30 ELSE 31

NoDate == [y |-> 0, m |-> 0, d |-> 0]

\* time.Parse("02/01/2006", s): two-digit day, two-digit month, four-digit
\* year separated by slashes, nothing else; the month and the day in range.
TimeParse(s) ==
    IF /\ Len(s) = 10
       /\ s[3] = "/" /\ s[6] = "/"
       /\ \A i \in {1, 2, 4, 5, 7, 8, 9, 10} : IsDigit(s[i])
    THEN LET d == NumVal(SubSeq(s, 1, 2))
             m == NumVal(SubSeq(s, 4, 5))
             y == NumVal(SubSeq(s, 7, 10))
         IN  IF m >= 1 /\ m <= 12 /\ d >= 1 /\ d <= DaysIn(m, y)
             THEN [err |-> FALSE, date |-> [y |-> y, m |-> m, d |-> d]]
             ELSE [err |-> TRUE, date |-> NoDate]
    ELSE [err |-> TRUE, date |-> NoDate]

\* t.Format("2006-01-02")
TimeFormat(t) ==
    << DigitChar(t.y \div 1000), DigitChar((t.y \div 100) % 10),
       DigitChar((t.y \div 10) % 10), DigitChar(t.y % 10), "-",
       DigitChar(t.m \div 10), DigitChar(t.m % 10), "-",
       DigitChar(t.d \div 10), DigitChar(t.d % 10) >>

\* ------------------------------------------------------------------ markup

NilNode == [nil |-> TRUE, Data |-> <<>>]

TextNode(data) == [nil |-> FALSE, Data |-> data]

NoAttr == [exists |-> FALSE, val |-> <<>>]

Attr(v) == [exists |-> TRUE, val |-> v]

Categoria == <<"C", "a", "t", "e", "g", "o", "r", "i", "a">>

PubblicatoIl == <<"P", "u", "b", "b", "l", "i", "c", "a", "t", "o", " ", "i", "l">>

ValidoFino == <<"V", "a", "l", "i", "d", "o", " ", "f", "i", "n", "o">>

\* Selection.Text() of a span: the text of its child, empty without one
SpanText(span) == IF span.FirstChild.nil THEN <<>> ELSE span.FirstChild.Data

RECURSIVE findNodeWithContext(_, _)
\* The first span whose previous sibling's Data contains context; its first
\* child is returned, which may be nil. A span without a previous sibling is
\* dereferenced through a nil pointer: panic.
findNodeWithContext(context, s) ==
    IF s = <<>> THEN [panic |-> FALSE, exists |-> FALSE, node |-> NilNode]
    ELSE IF Head(s).PrevSibling.nil
         THEN [panic |-> TRUE, exists |-> FALSE, node |-> NilNode]
         ELSE IF Contains(Head(s).PrevSibling.Data, context)
              THEN [panic |-> FALSE, exists |-> TRUE, node |-> Head(s).FirstChild]
              ELSE findNodeWithContext(context, Tail(s))

RECURSIVE parseAttachmentsStopping(_)
\* the loop over the .link-to-file elements ending at the first identifier
\* that does not parse
parseAttachmentsStopping(links) ==
    IF links = <<>> THEN <<>>
    ELSE LET a == Head(links)
             idDoc == ParseUint(a.idDoc.val)
             rest == parseAttachmentsStopping(Tail(links))
         IN  IF a.idDoc.exists /\ ~idDoc.err
             THEN <<[Id |-> idDoc.val, Title |-> a.text]>> \o rest
             ELSE <<>>

RECURSIVE parseAttachments(_)
\* the .link-to-file elements of the information cell, in source order
parseAttachments(links) ==
    IF links = <<>> THEN <<>>
    ELSE LET a == Head(links)
             idDoc == ParseUint(a.idDoc.val)
             rest == parseAttachments(Tail(links))
         IN  IF a.idDoc.exists /\ ~idDoc.err
             THEN <<[Id |-> idDoc.val, Title |-> a.text]>> \o rest
             ELSE rest

NoCircular ==
    [Id |-> 0, Title |-> <<>>, Category |-> <<>>, PublishedDate |-> NoDate,
     ValidUntilDate |-> NoDate, Attachments |-> <<>>]

Skip == [kind |-> "skip", c |-> NoCircular]

Panic == [kind |-> "panic", c |-> NoCircular]

\* The callback of doc.Find("tr.row-result").Each, for one row: the row is
\* skipped (return), the callback panics, or one circular is appended.
parseRow(row) ==
    LET id == ParseUint(row.idDoc.val)
        title == IF row.spans = <<>> THEN <<>> ELSE SpanText(row.spans[1])
        category == findNodeWithContext(Categoria, row.spans)
        publishedDateStr == findNodeWithContext(PubblicatoIl, row.spans)
        validUntilDateStr == findNodeWithContext(ValidoFino, row.spans)
    IN  IF ~row.idDoc.exists THEN Skip
        ELSE IF id.err THEN Skip
        ELSE IF title = <<>> THEN Skip
        ELSE IF category.panic THEN Panic
        ELSE IF ~category.exists THEN Skip
        ELSE IF publishedDateStr.panic THEN Panic
        ELSE IF ~publishedDateStr.exists THEN Skip
        ELSE IF publishedDateStr.node.nil THEN Panic
        ELSE IF TimeParse(publishedDateStr.node.Data).err THEN Skip
        ELSE IF validUntilDateStr.panic THEN Panic
        ELSE IF ~validUntilDateStr.exists THEN Skip
        ELSE IF validUntilDateStr.node.nil THEN Panic
        ELSE IF TimeParse(validUntilDateStr.node.Data).err THEN Skip
        ELSE IF category.node.nil THEN Panic
        ELSE [kind |-> "ok",
              c |-> [Id |-> id.val,
                     Title |-> title,
                     Category |-> category.node.Data,
                     PublishedDate |-> TimeParse(publishedDateStr.node.Data).date,
                     ValidUntilDate |-> TimeParse(validUntilDateStr.node.Data).date,
                     Attachments |-> parseAttachments(row.links)]]

RECURSIVE parseFromPrepending(_, _)
\* the Each loop putting every circular in front of those found so far
parseFromPrepending(rows, acc) ==
    IF rows = <<>> THEN [panic |-> FALSE, circulars |-> acc]
    ELSE LET r == parseRow(Head(rows))
         IN  IF r.kind = "panic" THEN [panic |-> TRUE, circulars |-> acc]
             ELSE IF r.kind = "skip" THEN parseFromPrepending(Tail(rows), acc)
             ELSE parseFromPrepending(Tail(rows), <<r.c>> \o acc)

RECURSIVE parseFrom(_, _)
\* the Each loop over the rows, from the circulars appended so far
parseFrom(rows, acc) ==
    IF rows = <<>> THEN [panic |-> FALSE, circulars |-> acc]
    ELSE LET r == parseRow(Head(rows))
         IN  IF r.kind = "panic" THEN [panic |-> TRUE, circulars |-> acc]
             ELSE IF r.kind = "skip" THEN parseFrom(Tail(rows), acc)
             ELSE parseFrom(Tail(rows), Append(acc, r.c))

\* parseCirculars on a corpus the markup library accepted
parseCirculars(rows) == parseFrom(rows, <<>>)

\* ------------------------------------------------------------------ store

\* The two tables, each a function from the primary key to the other
\* columns: circolare (titolo, categoria, data, valida_fino, aggiunta_il) and
\* circolare_allegato (titolo, id_circolare).
EmptyStore == [circ |-> <<>>, att |-> <<>>]

Persisted(table, id) == id \in DOMAIN table

\* queryCircular writing the row whether or not its key is persisted
queryCircularAlwaysUpdating(table, c, upsert, now) ==
    (c.Id :> [titolo |-> c.Title,
              categoria |-> c.Category,
              data |-> TimeFormat(c.PublishedDate),
              valida_fino |-> TimeFormat(c.ValidUntilDate),
              aggiunta_il |-> now]) @@ table

\* queryCircular with INSERT IGNORE used for every circular
queryCircularNeverUpdating(table, c, upsert, now) ==
    IF c.Id \in DOMAIN table THEN table
    ELSE table @@ (c.Id :> [titolo |-> c.Title,
                            categoria |-> c.Category,
                            data |-> TimeFormat(c.PublishedDate),
                            valida_fino |-> TimeFormat(c.ValidUntilDate),
                            aggiunta_il |-> now])

\* INSERT IGNORE leaves a row with the same key as it is; INSERT ... ON
\* DUPLICATE KEY UPDATE overwrites titolo, categoria, data and valida_fino.
queryCircular(table, c, upsert, now) ==
    IF ~Persisted(table, c.Id)
    THEN table @@ (c.Id :> [titolo |-> c.Title,
                            categoria |-> c.Category,
                            data |-> TimeFormat(c.PublishedDate),
                            valida_fino |-> TimeFormat(c.ValidUntilDate),
                            aggiunta_il |-> now])
    ELSE IF upsert
         THEN [table EXCEPT ![c.Id] =
                  [titolo |-> c.Title,
                   categoria |-> c.Category,
                   data |-> TimeFormat(c.PublishedDate),
                   valida_fino |-> TimeFormat(c.ValidUntilDate),
                   aggiunta_il |-> @.aggiunta_il]]
         ELSE table

\* The attachment statements: on a duplicate key only titolo is updated.
queryAttachment(table, a, idCircolare, upsert) ==
    IF ~Persisted(table, a.Id)
    THEN table @@ (a.Id :> [titolo |-> a.Title, id_circolare |-> idCircolare])
    ELSE IF upsert
         THEN [table EXCEPT ![a.Id] =
                  [titolo |-> a.Title, id_circolare |-> @.id_circolare]]
         ELSE table

RECURSIVE attachmentStatements(_, _, _)
attachmentStatements(atts, idCircolare, upsert) ==
    IF atts = <<>> THEN <<>>
    ELSE <<[table |-> "att", upsert |-> upsert, a |-> Head(atts),
            c |-> NoCircular, idCircolare |-> idCircolare]>>
         \o attachmentStatements(Tail(atts), idCircolare, upsert)

NoAttachment == [Id |-> 0, Title |-> <<>>]

RECURSIVE statementsFrom(_, _, _)
\* The statements insertCirculars executes, in order: for the circular at
\* index idx (from 0) its own statement and then one per attachment; the
\* first numToUpdate circulars use the updating form.
statementsFrom(circulars, idx, numToUpdate) ==
    IF circulars = <<>> THEN <<>>
    ELSE LET c == Head(circulars)
             upsert == idx < numToUpdate
         IN  <<[table |-> "circ", upsert |-> upsert, a |-> NoAttachment,
                c |-> c, idCircolare |-> c.Id]>>
             \o attachmentStatements(c.Attachments, c.Id, upsert)
             \o statementsFrom(Tail(circulars), idx + 1, numToUpdate)

\* tx.Exec of one statement on the transaction's view of the tables
exec(view, st, now) ==
    IF st.table = "circ"
    THEN [view EXCEPT !.circ = queryCircular(@, st.c, st.upsert, now)]
    ELSE [view EXCEPT !.att = queryAttachment(@, st.a, st.idCircolare, st.upsert)]

RECURSIVE execAll(_, _, _)
execAll(view, stmts, now) ==
    IF stmts = <<>> THEN view
    ELSE execAll(exec(view, Head(stmts), now), Tail(stmts), now)

\* Where a run of insertCirculars or deleteRemovedCirculars fails: 0 is
\* sql.Open, Ping or Begin; k in 1..n is the k-th statement; n + 1 is
\* Commit; n + 2 is a run without failure.
FailPoints(n) == 0..(n + 2)

NoFailure(n) == n + 2

\* insertCirculars without a transaction: each statement is committed as it
\* is executed
insertAutocommit(db, work, failed) == work

\* What the store holds after insertCirculars returns. A failure before
\* Commit returns err with the transaction neither committed nor rolled back
\* (its connection is dropped with db.Close), so nothing of it is visible.
insertCommitted(db, work, failed) == IF failed THEN db ELSE work

\* insertCirculars(circulars, numToUpdate) with its failure point
insertCirculars(db, circulars, numToUpdate, now, failAt) ==
    LET stmts == statementsFrom(circulars, 0, numToUpdate)
        n == Len(stmts)
        failed == failAt <= n + 1
        done == IF failAt = 0 THEN <<>>
                ELSE SubSeq(stmts, 1, IF failAt <= n THEN failAt - 1 ELSE n)
        work == execAll(db, done, now)
    IN  [err |-> failed,
         statements |-> n,
         executed |-> Len(done),
         db |-> insertCommitted(db, work, failed)]

\* ------------------------------------------------------------------ cleanup

RECURSIVE insertDesc(_, _)
insertDesc(x, s) ==
    IF s = <<>> THEN <<x>>
    ELSE IF x >= Head(s) THEN <<x>> \o s
         ELSE <<Head(s)>> \o insertDesc(x, Tail(s))

RECURSIVE sortDesc(_)
\* sort.Slice(ids, func(i, j) bool { return ids[i] > ids[j] })
sortDesc(s) == IF s = <<>> THEN <<>> ELSE insertDesc(Head(s), sortDesc(Tail(s)))

RECURSIVE circularIds(_)
circularIds(circulars) ==
    IF circulars = <<>> THEN <<>>
    ELSE <<Head(circulars).Id>> \o circularIds(Tail(circulars))

RECURSIVE attachmentIdsOf(_)
attachmentIdsOf(atts) ==
    IF atts = <<>> THEN <<>>
    ELSE <<Head(atts).Id>> \o attachmentIdsOf(Tail(atts))

RECURSIVE attachmentIds(_)
attachmentIds(circulars) ==
    IF circulars = <<>> THEN <<>>
    ELSE attachmentIdsOf(Head(circulars).Attachments)
         \o attachmentIds(Tail(circulars))

RECURSIVE setToSeq(_)
setToSeq(S) ==
    IF S = {} THEN <<>>
    ELSE LET x == CHOOSE y \in S : TRUE IN <<x>> \o setToSeq(S \ {x})

\* SELECT id FROM ... ORDER BY id DESC
selectIds(table) == sortDesc(setToSeq(DOMAIN table))

RECURSIVE sortSearch(_, _, _, _)
\* sort.Search(len(parsed), func(i int) bool { return parsed[i] <= id }):
\* the binary search between i and j, on 0-based indices
sortSearch(parsed, id, i, j) ==
    IF i < j
    THEN LET h == (i + j) \div 2
         IN  IF ~(parsed[h + 1] <= id)
             THEN sortSearch(parsed, id, h + 1, j)
             ELSE sortSearch(parsed, id, i, h)
    ELSE i

RECURSIVE searchRemoved(_, _)
\* The loop over the persisted ids: parsed[idx] is read without a check of
\* idx against len(parsed), so idx = len(parsed) is an index out of range.
searchRemoved(dbIds, parsed) ==
    IF dbIds = <<>> THEN [panic |-> FALSE, ids |-> <<>>]
    ELSE LET id == Head(dbIds)
             idx == sortSearch(parsed, id, 0, Len(parsed))
         IN  IF idx >= Len(parsed) THEN [panic |-> TRUE, ids |-> <<>>]
             ELSE LET rest == searchRemoved(Tail(dbIds), parsed)
                  IN  IF rest.panic THEN rest
                      ELSE IF parsed[idx + 1] # id
                           THEN [panic |-> FALSE, ids |-> <<id>> \o rest.ids]
                           ELSE rest

Range(s) == {s[i] : i \in 1..Len(s)}

\* The rows left in a table after the DELETE statements of ids, those in
\* failed having returned an error (which the code drops)
deleteRows(table, ids, failed) ==
    [id \in DOMAIN table \ (Range(ids) \ failed) |-> table[id]]

\* The DELETE statements of the transaction in the order of their tx.Exec:
\* one per attachment candidate, then one per circular candidate
deleteStatements(idsAttachToRemove, idsCircToRemove) ==
    [k \in 1..Len(idsAttachToRemove) |->
        [table |-> "att", id |-> idsAttachToRemove[k]]]
    \o [k \in 1..Len(idsCircToRemove) |->
          [table |-> "circ", id |-> idsCircToRemove[k]]]

\* What the store holds after the delete transaction: Commit is reached
\* whatever the DELETE statements returned.
deleteCommitted(db, work, commitFailed) == IF commitFailed THEN db ELSE work

\* deleteRemovedCirculars(circulars): outcome is "err" (returned error),
\* "fatal" (log.Fatal), "panic" or "ok".
deleteRemovedCirculars(db, circulars, fail, failed) ==
    LET parsedCircId == sortDesc(circularIds(circulars))
        parsedAttachId == sortDesc(attachmentIds(circulars))
        dbCircularsId == selectIds(db.circ)
        dbAttachmentsId == selectIds(db.att)
        circ == searchRemoved(dbCircularsId, parsedCircId)
        att == searchRemoved(dbAttachmentsId, parsedAttachId)
        work == [circ |-> deleteRows(db.circ, circ.ids, failed.circ),
                 att |-> deleteRows(db.att, att.ids, failed.att)]
        none == [outcome |-> "err", idsCircToRemove |-> <<>>,
                 idsAttachToRemove |-> <<>>, db |-> db]
    IN  IF fail = "connect" THEN none
        ELSE IF fail = "query" THEN [none EXCEPT !.outcome = "fatal"]
        ELSE IF circ.panic \/ att.panic THEN [none EXCEPT !.outcome = "panic"]
        ELSE [outcome |-> IF fail = "commit" THEN "err" ELSE "ok",
              idsCircToRemove |-> circ.ids,
              idsAttachToRemove |-> att.ids,
              db |-> deleteCommitted(db, work, fail = "commit")]

\* ------------------------------------------------------------------ feed

Space == <<" ">>

Colon == <<":">>

\* A tr.row-result as the upstream page writes it: the title span, then
\* each label as a text node followed by the span of its value.
Row(idDoc, title, category, published, validUntil, links) ==
    [idDoc |-> idDoc,
     spans |-> << [PrevSibling |-> TextNode(Space), FirstChild |-> TextNode(title)],
                  [PrevSibling |-> TextNode(Categoria \o Colon),
                   FirstChild |-> TextNode(category)],
                  [PrevSibling |-> TextNode(PubblicatoIl \o Colon),
                   FirstChild |-> TextNode(published)],
                  [PrevSibling |-> TextNode(ValidoFino \o Colon),
                   FirstChild |-> TextNode(validUntil)] >>,
     links |-> links]

Link(idDoc, text) == [idDoc |-> idDoc, text |-> text]

Date1 == <<"0", "7", "/", "0", "9", "/", "2", "0", "2", "4">>

Date2 == <<"2", "9", "/", "0", "2", "/", "2", "0", "2", "4">>

BadMonth == <<"3", "1", "/", "1", "3", "/", "2", "0", "2", "4">>

BadDay == <<"2", "9", "/", "0", "2", "/", "2", "0", "2", "3">>

Cat == <<"n">>

RowA1 == Row(Attr(<<"1">>), <<"a">>, Cat, Date1, Date2, <<>>)

RowB1 == Row(Attr(<<"1">>), <<"b">>, Cat, Date1, Date1,
             <<Link(Attr(<<"1", "1">>), <<"x">>)>>)

RowA2 == Row(Attr(<<"2">>), <<"a">>, Cat, Date1, Date2,
             <<Link(Attr(<<"1", "2">>), <<"x">>)>>)

RowB2 == Row(Attr(<<"2">>), <<"b">>, Cat, Date1, Date2,
             <<Link(Attr(<<"1", "1">>), <<"y">>)>>)

RowA3 == Row(Attr(<<"3">>), <<"a">>, Cat, Date1, Date2, <<>>)

\* rows with a per-row problem
RowNoId == [RowA1 EXCEPT !.idDoc = NoAttr]

RowBadId == [RowA1 EXCEPT !.idDoc = Attr(<<"x">>)]

RowNoCell == [RowA1 EXCEPT !.spans = <<>>]

RowNoTitle == [RowA1 EXCEPT !.spans[1].FirstChild = NilNode]

RowNoCategory == [RowA1 EXCEPT !.spans = <<@[1], @[3], @[4]>>]

RowNoPublished == [RowA1 EXCEPT !.spans = <<@[1], @[2], @[4]>>]

RowNoValidUntil == [RowA1 EXCEPT !.spans = <<@[1], @[2], @[3]>>]

RowBadMonth == [RowA1 EXCEPT !.spans[3].FirstChild = TextNode(BadMonth)]

RowBadDay == [RowA1 EXCEPT !.spans[4].FirstChild = TextNode(BadDay)]

\* the title span is the first node of the cell: it has no previous sibling
RowNoSibling == [RowA1 EXCEPT !.spans[1].PrevSibling = NilNode]

\* the span after a label is empty: the label has no value node
RowNoValue == [RowA1 EXCEPT !.spans[3].FirstChild = NilNode]

RowNoCategoryValue == [RowA1 EXCEPT !.spans[2].FirstChild = NilNode]

\* rows whose attachment markers have a problem: an id_doc that is no
\* number between two good markers; a marker without id_doc before a good one
RowBadLink ==
    [RowA3 EXCEPT !.links = <<Link(Attr(<<"1", "3">>), <<"x">>),
                             Link(Attr(<<"z">>), <<"y">>),
                             Link(Attr(<<"1", "4">>), <<"z">>)>>]

RowLinkNoId ==
    [RowA2 EXCEPT !.links = <<Link(NoAttr, <<"x">>),
                             Link(Attr(<<"1", "5">>), <<"y">>)>>]

\* ------------------------------------------------------------------ bounds

MaxPages == 2

MaxCycles == 2

MaxRows == 2

\* ------------------------------------------------------------------ state

Minute == 60

Hour == 3600

numToUpdate == 25

PageSize == 100

VARIABLES
    pc,               \* where main is: wait, fetch, parse, write, cleanup,
                      \* exited (log.Fatal) or panicked
    cycle,            \* the iterations of the main loop begun
    now,              \* the clock, in seconds
    nextTime,
    nextCleanupTime,
    parseTimeout,
    count,            \* getCirculars: the offset of the next request
    circularsHtml,    \* getCirculars: the rows accumulated
    offsets,          \* the ls field of each request of that fetch
    resps,            \* the responses decoded by the fetch under way or just returned
    fetched,          \* this cycle's getCirculars: none, ok or err
    corpus,           \* the rows of the reader getCirculars returned
    circulars,        \* what parseCirculars returned
    db,               \* the store: the committed rows of the two tables
    ins,              \* this cycle's insertCirculars: its return and inputs
    del               \* this cycle's deleteRemovedCirculars

vars ==
    <<pc, cycle, now, nextTime, nextCleanupTime, parseTimeout, count,
      circularsHtml, offsets, resps, fetched, corpus, circulars, db, ins, del>>

NoIns ==
    [ran |-> FALSE, err |-> FALSE, failAt |-> 0, statements |-> 0,
     executed |-> 0, before |-> EmptyStore]

NoDel ==
    [ran |-> FALSE, fail |-> "none", outcome |-> "none", idsCircToRemove |-> <<>>,
     idsAttachToRemove |-> <<>>, failed |-> [circ |-> {}, att |-> {}],
     before |-> EmptyStore]

\* t.Truncate(d), for t >= 0
Truncate(t, d) == t - (t % d)

\* the rows a page of the feed may carry, and the feed's answers
FeedRows == {RowA1, RowB1, RowA2, RowB2}

Fragments == {<<>>} \cup {<<r>> : r \in FeedRows}

Cnts == {-1, 0, 20}

Responses == [Htm : Fragments, Cnt : Cnts]

StartTimes == {620}

ParseTimeouts == {3 * Hour}

\* what the store holds when the process starts: nothing, or the rows an
\* earlier run of the process left
SeedStore ==
    LET seed == parseCirculars(<<RowB1, RowA2>>).circulars
    IN  insertCirculars(EmptyStore, seed, numToUpdate, 0,
                        NoFailure(Len(statementsFrom(seed, 0, numToUpdate)))).db

InitStores == {EmptyStore, SeedStore}

Init ==
    /\ pc = "wait"
    /\ cycle = 0
    /\ now \in StartTimes
    /\ nextTime = now
    /\ nextCleanupTime = nextTime
    /\ parseTimeout \in ParseTimeouts
    /\ count = 0
    /\ circularsHtml = <<>>
    /\ offsets = <<>>
    /\ resps = <<>>
    /\ fetched = "none"
    /\ corpus = <<>>
    /\ circulars = <<>>
    /\ db \in InitStores
    /\ ins = NoIns
    /\ del = NoDel

\* ------------------------------------------------------------------ main

\* time.Sleep(time.Until(nextTime)) and the advance of nextTime
Wake ==
    /\ pc = "wait"
    /\ cycle < MaxCycles
    /\ cycle' = cycle + 1
    /\ now' = IF nextTime > now THEN nextTime ELSE now
    /\ nextTime' = Truncate(nextTime, Minute) + parseTimeout
    /\ pc' = "fetch"
    /\ count' = 0
    /\ circularsHtml' = <<>>
    /\ offsets' = <<>>
    /\ resps' = <<>>
    /\ fetched' = "none"
    /\ corpus' = <<>>
    /\ circulars' = <<>>
    /\ ins' = NoIns
    /\ del' = NoDel
    /\ UNCHANGED <<nextCleanupTime, parseTimeout, db>>

\* the loop of getCirculars breaking only on a negative count
lastPageNegative(m) == m.Cnt < 0

\* getCirculars, after a response: m.Cnt <= 0 breaks the loop
lastPage(m) == m.Cnt <= 0

\* getCirculars, one turn of its loop: the request with ls = count and a
\* decoded response
FetchPage ==
    /\ pc = "fetch"
    /\ \E m \in Responses :
        /\ Len(offsets) + 1 >= MaxPages => m.Cnt <= 0
        /\ offsets' = Append(offsets, count)
        /\ resps' = Append(resps, m)
        /\ IF lastPage(m)
           THEN /\ fetched' = "ok"
                /\ corpus' = circularsHtml \o m.Htm
                /\ pc' = "parse"
                /\ count' = 0
                /\ circularsHtml' = <<>>
           ELSE /\ count' = count + PageSize
                /\ circularsHtml' = circularsHtml \o m.Htm
                /\ UNCHANGED <<fetched, corpus, pc>>
    /\ UNCHANGED <<cycle, now, nextTime, nextCleanupTime, parseTimeout,
                   circulars, db, ins, del>>

\* getCirculars returning what it has accumulated when a page fails
partialCorpus(html) == html

\* what getCirculars returns when client.Do or the decoding fails: nil
failedCorpus(html) == <<>>

\* where main goes on after getCirculars returned an error: continue
afterFetchError == "wait"

\* getCirculars, a turn of its loop whose request or decoding fails
FetchFail ==
    /\ pc = "fetch"
    /\ offsets' = Append(offsets, count)
    /\ fetched' = "err"
    /\ corpus' = failedCorpus(circularsHtml)
    /\ pc' = afterFetchError
    /\ count' = 0
    /\ circularsHtml' = <<>>
    /\ UNCHANGED <<cycle, now, nextTime, nextCleanupTime, parseTimeout,
                   resps, circulars, db, ins, del>>

\* goquery.NewDocumentFromReader returns an error: continue
ParseFail ==
    /\ pc = "parse"
    /\ pc' = "wait"
    /\ offsets' = <<>>
    /\ resps' = <<>>
    /\ UNCHANGED <<cycle, now, nextTime, nextCleanupTime, parseTimeout, count,
                   circularsHtml, fetched, corpus, circulars, db, ins, del>>

Parse ==
    /\ pc = "parse"
    /\ LET r == parseCirculars(corpus)
       IN  /\ circulars' = r.circulars
           /\ pc' = IF r.panic THEN "panicked" ELSE "write"
    /\ offsets' = <<>>
    /\ resps' = <<>>
    /\ UNCHANGED <<cycle, now, nextTime, nextCleanupTime, parseTimeout, count,
                   circularsHtml, fetched, corpus, db, ins, del>>

\* insertCirculars(circulars, 25, connectionString) and main's check of err
Insert ==
    /\ pc = "write"
    /\ \E failAt \in FailPoints(Len(statementsFrom(circulars, 0, numToUpdate))) :
        LET r == insertCirculars(db, circulars, numToUpdate, now, failAt)
        IN  /\ db' = r.db
            /\ ins' = [ran |-> TRUE, err |-> r.err, failAt |-> failAt,
                       statements |-> r.statements, executed |-> r.executed,
                       before |-> db]
            /\ pc' = IF r.err THEN "wait" ELSE "cleanup"
    /\ UNCHANGED <<cycle, now, nextTime, nextCleanupTime, parseTimeout, count,
                   circularsHtml, offsets, resps, fetched, corpus, circulars, del>>

\* main running the cleanup in every cycle
cleanupEveryCycle == TRUE

\* nextTime.After(nextCleanupTime)
cleanupDue == nextTime > nextCleanupTime

SkipCleanup ==
    /\ pc = "cleanup"
    /\ ~cleanupDue
    /\ pc' = "wait"
    /\ UNCHANGED <<cycle, now, nextTime, nextCleanupTime, parseTimeout, count,
                   circulars, circularsHtml, offsets, resps, fetched, corpus,
                   db, ins, del>>

\* where main goes on after deleteRemovedCirculars: log.Fatal and a panic
\* end the process, a returned error or success goes on to the next cycle
afterDelete(outcome) ==
    IF outcome = "fatal" THEN "exited"
    ELSE IF outcome = "panic" THEN "panicked"
    ELSE "wait"

\* main advancing nextCleanupTime only after a cleanup that succeeded
CleanupRetrying ==
    /\ pc = "cleanup"
    /\ cleanupDue
    /\ \E fail \in {"connect", "query", "commit", "none"} :
       \E fc \in SUBSET (DOMAIN db.circ), fa \in SUBSET (DOMAIN db.att) :
        LET r == deleteRemovedCirculars(db, circulars, fail,
                                        [circ |-> fc, att |-> fa])
        IN  /\ r.outcome \in {"ok", "err"} /\ fail # "connect" =>
                 /\ fc \subseteq Range(r.idsCircToRemove)
                 /\ fa \subseteq Range(r.idsAttachToRemove)
            /\ ~(r.outcome \in {"ok", "err"} /\ fail # "connect") =>
                 fc = {} /\ fa = {}
            /\ db' = r.db
            /\ nextCleanupTime' = IF r.outcome = "ok"
                                  THEN Truncate(nextTime, Hour) + 6 * Hour
                                  ELSE nextCleanupTime
            /\ del' = [ran |-> TRUE, fail |-> fail, outcome |-> r.outcome,
                       idsCircToRemove |-> r.idsCircToRemove,
                       idsAttachToRemove |-> r.idsAttachToRemove,
                       failed |-> [circ |-> fc, att |-> fa],
                       before |-> db]
            /\ pc' = afterDelete(r.outcome)
    /\ UNCHANGED <<cycle, now, nextTime, parseTimeout, count, circularsHtml,
                   offsets, resps, fetched, corpus, circulars, ins>>

\* the due cleanup: nextCleanupTime is advanced, then
\* deleteRemovedCirculars(circulars) runs and main checks its err
Cleanup ==
    /\ pc = "cleanup"
    /\ cleanupDue
    /\ nextCleanupTime' = Truncate(nextTime, Hour) + 6 * Hour
    /\ \E fail \in {"connect", "query", "commit", "none"} :
       \E fc \in SUBSET (DOMAIN db.circ), fa \in SUBSET (DOMAIN db.att) :
        LET r == deleteRemovedCirculars(db, circulars, fail,
                                        [circ |-> fc, att |-> fa])
        IN  /\ r.outcome \in {"ok", "err"} /\ fail # "connect" =>
                 /\ fc \subseteq Range(r.idsCircToRemove)
                 /\ fa \subseteq Range(r.idsAttachToRemove)
            /\ ~(r.outcome \in {"ok", "err"} /\ fail # "connect") =>
                 fc = {} /\ fa = {}
            /\ db' = r.db
            /\ del' = [ran |-> TRUE, fail |-> fail, outcome |-> r.outcome,
                       idsCircToRemove |-> r.idsCircToRemove,
                       idsAttachToRemove |-> r.idsAttachToRemove,
                       failed |-> [circ |-> fc, att |-> fa],
                       before |-> db]
            /\ pc' = afterDelete(r.outcome)
    /\ UNCHANGED <<cycle, now, nextTime, parseTimeout, count, circularsHtml,
                   offsets, resps, fetched, corpus, circulars, ins>>

Next ==
    \/ Wake
    \/ FetchPage
    \/ FetchFail
    \/ ParseFail
    \/ Parse
    \/ Insert
    \/ SkipCleanup
    \/ Cleanup

Spec == Init /\ [][Next]_vars

\* ------------------------------------------------------------------ parseCirculars alone

\* the rows a corpus may hold: well-formed ones and one per kind of problem
ParseRows ==
    {RowA1, RowB1, RowA2, RowA3, RowNoId, RowBadId, RowNoCell, RowNoTitle,
     RowNoCategory, RowNoPublished, RowNoValidUntil, RowBadMonth, RowBadDay,
     RowNoSibling, RowNoValue, RowNoCategoryValue, RowBadLink, RowLinkNoId}

RECURSIVE SeqsUpTo(_, _)
\* the sequences of at most n elements of S
SeqsUpTo(S, n) ==
    IF n = 0 THEN {<<>>}
    ELSE LET shorter == SeqsUpTo(S, n - 1)
         IN  shorter \cup {Append(q, x) : q \in shorter, x \in S}

\* main has just received a corpus from getCirculars
InitAt(position, corpora, stores) ==
    /\ pc = position
    /\ cycle = 1
    /\ now \in StartTimes
    /\ parseTimeout \in ParseTimeouts
    /\ nextTime = Truncate(now, Minute) + parseTimeout
    /\ nextCleanupTime = now
    /\ count = 0
    /\ circularsHtml = <<>>
    /\ offsets = <<>>
    /\ resps = <<>>
    /\ fetched = "ok"
    /\ corpus \in corpora
    /\ circulars = IF position = "parse" THEN <<>>
                   ELSE parseCirculars(corpus).circulars
    /\ db \in stores
    /\ ins = NoIns
    /\ del = NoDel

InitParse == InitAt("parse", SeqsUpTo(ParseRows, MaxRows), {EmptyStore})

NextParse == Parse \/ ParseFail

SpecParse == InitParse /\ [][NextParse]_vars

\* ------------------------------------------------------------------ insertCirculars alone

\* the decimal digits of n, for 100 <= n <= 999
IdChars(n) == <<DigitChar(n \div 100), DigitChar((n \div 10) % 10), DigitChar(n % 10)>>

\* n well-formed rows with the identifiers 101, 102, ...: the head of a long
\* listing
LeadingRows(n) ==
    [i \in 1..n |-> Row(Attr(IdChars(100 + i)), <<"f">>, Cat, Date1, Date2, <<>>)]

\* listings whose last rows fall on either side of the first numToUpdate
Leads == {0, numToUpdate - 2, numToUpdate - 1, numToUpdate}

WriteCorpora ==
    {LeadingRows(n) \o tail :
        n \in Leads, tail \in SeqsUpTo(FeedRows, MaxRows) \ {<<>>}}

\* main has parsed a long listing without panic and is about to write it
InitWrite == InitAt("write", WriteCorpora, InitStores)

NextWrite == Insert

SpecWrite == InitWrite /\ [][NextWrite]_vars

\* ------------------------------------------------------------------ the schedule alone

\* CIRCULARS_CYCLE_WAIT: any duration time.ParseDuration accepts, among them
\* one below a minute
SchedTimeouts == {30, 5 * Minute, 3 * Hour}

\* how long after the scheduled time of the next cycle a stalled request
\* may come back
Lateness == {700}

\* main starts against an empty store
InitSched ==
    /\ pc = "wait"
    /\ cycle = 0
    /\ now \in StartTimes
    /\ nextTime = now
    /\ nextCleanupTime = nextTime
    /\ parseTimeout \in SchedTimeouts
    /\ count = 0
    /\ circularsHtml = <<>>
    /\ offsets = <<>>
    /\ resps = <<>>
    /\ fetched = "none"
    /\ corpus = <<>>
    /\ circulars = <<>>
    /\ db = EmptyStore
    /\ ins = NoIns
    /\ del = NoDel

\* client.Do of the first request blocks (no timeout is set on the client)
\* until after the scheduled time of the next cycle
Stall ==
    /\ pc = "fetch"
    /\ offsets = <<>>
    /\ now <= nextTime
    /\ \E d \in Lateness : now' = nextTime + d
    /\ UNCHANGED <<pc, cycle, nextTime, nextCleanupTime, parseTimeout, count,
                   circularsHtml, offsets, resps, fetched, corpus, circulars,
                   db, ins, del>>

\* a turn of the loop of getCirculars when the listing has no rows
FetchEmptyPage == FetchPage /\ resps'[Len(resps')].Htm = <<>>

NextSched ==
    \/ Wake
    \/ Stall
    \/ FetchEmptyPage
    \/ FetchFail
    \/ ParseFail
    \/ Parse
    \/ Insert
    \/ SkipCleanup
    \/ Cleanup

SpecSched == InitSched /\ [][NextSched]_vars

\* ------------------------------------------------------------------ claims

\* the identifiers of the current extraction
CurrentCircIds == {circulars[i].Id : i \in 1..Len(circulars)}

CurrentAttIds ==
    UNION {Range(attachmentIdsOf(circulars[i].Attachments)) : i \in 1..Len(circulars)}

\* deleteRemovedCirculars got as far as its search for the removed ids
SearchedRemoved == del.ran /\ del.fail \notin {"connect", "query"}

\* C1: whenever the cleanup computes its removal candidates, for circulars
\* and for attachments they are exactly the persisted identifiers that are
\* absent from the current extraction (P minus C).
C1_CandidatesArePMinusC ==
    SearchedRemoved =>
        /\ del.outcome # "panic"
        /\ Range(del.idsCircToRemove) = (DOMAIN del.before.circ) \ CurrentCircIds
        /\ Range(del.idsAttachToRemove) = (DOMAIN del.before.att) \ CurrentAttIds

\* C2: with an empty current extraction the cleanup completes without an
\* out-of-bounds access and every persisted identifier is a candidate.
C2_EmptyExtractionRemovesAll ==
    SearchedRemoved /\ circulars = <<>> =>
        /\ del.outcome \in {"ok", "err"}
        /\ Range(del.idsCircToRemove) = DOMAIN del.before.circ
        /\ Range(del.idsAttachToRemove) = DOMAIN del.before.att

\* C3: when insertCirculars returns an error, whichever statement failed,
\* the store is what it was before the cycle's write phase.
C3_WriteAtomicity == ins.ran /\ ins.err => db = ins.before

\* the statement of an attachment has failed after statements that added
\* rows to an empty store
C3_FailedAfterStatements ==
    /\ ins.ran
    /\ ins.err
    /\ ins.failAt \in 3..ins.statements
    /\ ins.executed = ins.failAt - 1
    /\ ins.before = EmptyStore
    /\ statementsFrom(circulars, 0, numToUpdate)[ins.failAt].table = "att"

\* C4: in the write and in the delete transaction alike, a statement that
\* fails leaves nothing of the transaction committed.
C4_FailedStatementRollsBack ==
    /\ ins.ran /\ ins.err => db = ins.before
    /\ del.ran /\ del.failed.circ \cup del.failed.att # {} => db = del.before

\* C5: no failure of a cycle ends the process once the loop is entered.
C5_LoopNeverEnds == pc \notin {"exited", "panicked"}

RECURSIVE Concat(_)
Concat(fragments) ==
    IF fragments = <<>> THEN <<>> ELSE Head(fragments) \o Concat(Tail(fragments))

\* C6: the requests of one fetch carry the offsets 0, 100, 200, ... in
\* order, the fetch goes on after every response with Cnt > 0, it returns
\* right after the first response with Cnt <= 0, and the corpus returned is
\* the fragments received, concatenated in request order.
C6_Pagination ==
    /\ \A i \in 1..Len(offsets) : offsets[i] = 100 * (i - 1)
    /\ pc = "fetch" =>
          /\ Len(offsets) = Len(resps)
          /\ count = 100 * Len(resps)
          /\ \A i \in 1..Len(resps) : resps[i].Cnt > 0
    /\ pc = "parse" =>
          /\ fetched = "ok"
          /\ Len(resps) >= 1
          /\ Len(offsets) = Len(resps)
          /\ resps[Len(resps)].Cnt <= 0
          /\ \A i \in 1..(Len(resps) - 1) : resps[i].Cnt > 0
          /\ corpus = Concat([i \in 1..Len(resps) |-> resps[i].Htm])

\* a fetch of two pages that carry different rows has returned
C6_TwoPagesFetched ==
    /\ pc = "parse"
    /\ Len(resps) = 2
    /\ resps[1].Htm # <<>>
    /\ resps[2].Htm # <<>>
    /\ resps[1].Htm # resps[2].Htm

\* C7: when a request or a decoding of a fetch fails, getCirculars returns
\* no corpus, and neither extraction nor write nor cleanup runs in the cycle.
C7_FetchFailsFast ==
    fetched = "err" =>
        /\ corpus = <<>>
        /\ circulars = <<>>
        /\ pc = "wait"
        /\ ~ins.ran
        /\ ~del.ran

\* a fetch has failed on its second page, after a page that carried rows
C7_FailedAfterAPage ==
    fetched = "err" /\ Len(offsets) = 2 /\ Len(resps) = 1 /\ resps[1].Htm # <<>>

\* the first span of the row that follows the label, if any
LabelSpans(row, label) ==
    {i \in 1..Len(row.spans) :
        /\ ~row.spans[i].PrevSibling.nil
        /\ Contains(row.spans[i].PrevSibling.Data, label)}

LabelValue(row, label) ==
    row.spans[CHOOSE i \in LabelSpans(row, label) :
                 \A j \in LabelSpans(row, label) : i <= j].FirstChild

\* a row with one of the per-row problems
Malformed(row) ==
    \/ ~row.idDoc.exists
    \/ ParseUint(row.idDoc.val).err
    \/ row.spans = <<>>
    \/ row.spans[1].FirstChild.nil
    \/ row.spans[1].FirstChild.Data = <<>>
    \/ \E i \in 1..Len(row.spans) : row.spans[i].PrevSibling.nil
    \/ \E label \in {Categoria, PubblicatoIl, ValidoFino} :
          \/ LabelSpans(row, label) = {}
          \/ LabelValue(row, label).nil
    \/ TimeParse(LabelValue(row, PubblicatoIl).Data).err
    \/ TimeParse(LabelValue(row, ValidoFino).Data).err

\* C8: parseCirculars returns normally whatever the rows are, with no
\* circular for a row that has a per-row problem and one for every other row.
C8_MalformedRowsSkipped ==
    pc \in {"write", "panicked"} =>
        /\ pc = "write"
        /\ Len(circulars) = Cardinality({i \in 1..Len(corpus) : ~Malformed(corpus[i])})

\* the write phase of this cycle has committed
Written == ins.ran /\ ~ins.err

InWindow(i) == i <= numToUpdate

WindowCircIds == {circulars[i].Id : i \in {j \in 1..Len(circulars) : InWindow(j)}}

WindowAttIds ==
    UNION {Range(attachmentIdsOf(circulars[i].Attachments)) :
              i \in {j \in 1..Len(circulars) : InWindow(j)}}

\* C9: after a successful write every circular past the first 25
\* and each of its attachments is persisted, and a row that was persisted
\* before the write has all its columns unchanged.
C9_RemainderLeavesPersistedRows ==
    Written =>
        \A i \in 1..Len(circulars) : ~InWindow(i) =>
            LET c == circulars[i]
            IN  /\ Persisted(db.circ, c.Id)
                /\ Persisted(ins.before.circ, c.Id) =>
                       db.circ[c.Id] = ins.before.circ[c.Id]
                /\ \A k \in 1..Len(c.Attachments) :
                       LET a == c.Attachments[k]
                       IN  /\ Persisted(db.att, a.Id)
                           /\ Persisted(ins.before.att, a.Id) =>
                                  db.att[a.Id] = ins.before.att[a.Id]

\* What holds of the remainder whatever the identifiers are: after a
\* successful write every circular past the first 25 and each of its
\* attachments is persisted; a row that was persisted before the write has
\* all its columns unchanged unless the same identifier also occurs among
\* the first 25 circulars (for an attachment: among their attachments).
C9_RemainderLeavesRowsNotInWindow ==
    Written =>
        \A i \in 1..Len(circulars) : ~InWindow(i) =>
            LET c == circulars[i]
            IN  /\ Persisted(db.circ, c.Id)
                /\ Persisted(ins.before.circ, c.Id) /\ c.Id \notin WindowCircIds =>
                       db.circ[c.Id] = ins.before.circ[c.Id]
                /\ \A k \in 1..Len(c.Attachments) :
                       LET a == c.Attachments[k]
                       IN  /\ Persisted(db.att, a.Id)
                           /\ Persisted(ins.before.att, a.Id) /\ a.Id \notin WindowAttIds =>
                                  db.att[a.Id] = ins.before.att[a.Id]

\* a circular past the first 25 was persisted with another title, and so
\* was one of its attachments, and the write has committed
C9_PersistedRowsPastWindow ==
    /\ Written
    /\ \E i \in 1..Len(circulars) :
          /\ ~InWindow(i)
          /\ circulars[i].Id \notin WindowCircIds
          /\ Persisted(ins.before.circ, circulars[i].Id)
          /\ ins.before.circ[circulars[i].Id].titolo # circulars[i].Title
          /\ \E k \in 1..Len(circulars[i].Attachments) :
                LET a == circulars[i].Attachments[k]
                IN  /\ a.Id \notin WindowAttIds
                    /\ Persisted(ins.before.att, a.Id)
                    /\ ins.before.att[a.Id].titolo # a.Title

\* the stored columns of a circular are the extracted values of c
StoredAs(c) ==
    /\ Persisted(db.circ, c.Id)
    /\ db.circ[c.Id].titolo = c.Title
    /\ db.circ[c.Id].categoria = c.Category
    /\ db.circ[c.Id].data = TimeFormat(c.PublishedDate)
    /\ db.circ[c.Id].valida_fino = TimeFormat(c.ValidUntilDate)

AttachmentStoredAs(a) ==
    Persisted(db.att, a.Id) /\ db.att[a.Id].titolo = a.Title

\* C10: after a successful write the stored title, category and
\* dates of each of the first 25 circulars, and the stored title of each of
\* its attachments, are the extracted ones.
C10_WindowStoredAsExtracted ==
    Written =>
        \A i \in 1..Len(circulars) : InWindow(i) =>
            /\ StoredAs(circulars[i])
            /\ \A k \in 1..Len(circulars[i].Attachments) :
                   AttachmentStoredAs(circulars[i].Attachments[k])

\* no later circular among the first 25 has the identifier of the i-th
LastInWindow(i) ==
    \A j \in (i + 1)..Len(circulars) :
        InWindow(j) => circulars[j].Id # circulars[i].Id

\* no later attachment among those of the first 25 circulars has the
\* identifier of the k-th attachment of the i-th circular
LastAttachmentInWindow(i, k) ==
    /\ \A l \in (k + 1)..Len(circulars[i].Attachments) :
           circulars[i].Attachments[l].Id # circulars[i].Attachments[k].Id
    /\ \A j \in (i + 1)..Len(circulars) : InWindow(j) =>
           \A l \in 1..Len(circulars[j].Attachments) :
               circulars[j].Attachments[l].Id # circulars[i].Attachments[k].Id

\* What holds of the first 25 whatever the identifiers are: after a
\* successful write, for each identifier among the first 25 circulars the
\* stored title, category and dates are those extracted for the last of them
\* that carries the identifier, and likewise the stored title of each
\* attachment identifier among their attachments.
C10_WindowStoredAsLastExtracted ==
    Written =>
        \A i \in 1..Len(circulars) : InWindow(i) =>
            /\ LastInWindow(i) => StoredAs(circulars[i])
            /\ \A k \in 1..Len(circulars[i].Attachments) :
                   LastAttachmentInWindow(i, k) =>
                       AttachmentStoredAs(circulars[i].Attachments[k])

\* a circular among the first 25 was persisted with another title, and so
\* was one of its attachments, and the write has committed
C10_PersistedRowsInWindow ==
    /\ Written
    /\ \E i \in 1..Len(circulars) :
          /\ InWindow(i)
          /\ Persisted(ins.before.circ, circulars[i].Id)
          /\ ins.before.circ[circulars[i].Id].titolo # circulars[i].Title
          /\ \E k \in 1..Len(circulars[i].Attachments) :
                LET a == circulars[i].Attachments[k]
                IN  /\ Persisted(ins.before.att, a.Id)
                    /\ ins.before.att[a.Id].titolo # a.Title

\* C11: in what one extraction returns no two circulars have the same
\* identifier and no two attachments, over all the circulars, have the same
\* identifier, whatever corpus the fetch assembled.
C11_IdentifiersUnique ==
    /\ \A i, j \in 1..Len(circulars) :
           i # j => circulars[i].Id # circulars[j].Id
    /\ LET ids == attachmentIds(circulars)
       IN  \A k, l \in 1..Len(ids) : k # l => ids[k] # ids[l]

\* deleteRemovedCirculars run once more on the store as it is now, with the
\* same extraction and every statement succeeding
CleanupAgain ==
    deleteRemovedCirculars(db, circulars, "none", [circ |-> {}, att |-> {}])

\* C12: after a cycle whose write and cleanup both returned success, a
\* second cleanup with the same extraction on the unchanged store finds no
\* removal candidate, neither a circular nor an attachment.
C12_CleanupIdempotent ==
    Written /\ del.ran /\ del.outcome = "ok" =>
        /\ CleanupAgain.outcome = "ok"
        /\ CleanupAgain.idsCircToRemove = <<>>
        /\ CleanupAgain.idsAttachToRemove = <<>>

\* a step that removes a row from one of the two tables
RowDeleted ==
    \/ (DOMAIN db.circ) \ (DOMAIN db'.circ) # {}
    \/ (DOMAIN db.att) \ (DOMAIN db'.att) # {}

\* C13: a row is deleted only by the cleanup of a cycle whose scheduled
\* time is strictly after the next-cleanup time; once the cleanup of a cycle
\* has run, the next-cleanup time is the cycle's scheduled time truncated to
\* the hour plus 6 hours; and a step of a cycle scheduled at or before the
\* next-cleanup time deletes nothing.
C13_DeletesOnlyWhenDue ==
    [][/\ RowDeleted =>
            /\ pc = "cleanup"
            /\ nextTime > nextCleanupTime
            /\ del'.ran
       /\ del'.ran =>
            nextCleanupTime' = Truncate(nextTime', Hour) + 6 * Hour
       /\ nextTime <= nextCleanupTime => ~RowDeleted]_vars

\* A cleanup has run in the cycle before; the cycle after it, scheduled
\* before the next-cleanup time, has written its extraction and gone back to
\* sleep without a cleanup, the store holding a circular and an attachment
\* that the extraction lacks.
C13_NotDueWithCandidates ==
    /\ pc = "wait"
    /\ Written
    /\ ~del.ran
    /\ nextTime <= nextCleanupTime
    /\ nextCleanupTime = Truncate(nextTime - parseTimeout, Hour) + 6 * Hour
    /\ (DOMAIN db.circ) \ CurrentCircIds # {}
    /\ (DOMAIN db.att) \ CurrentAttIds # {}

\* the statements of this cycle's delete transaction, in order
DeleteStatements == deleteStatements(del.idsAttachToRemove, del.idsCircToRemove)

\* the k-th statement of the delete transaction has removed its row
DeleteDone(k) ==
    LET st == DeleteStatements[k]
    IN  IF st.table = "circ" THEN st.id \notin del.failed.circ
        ELSE st.id \notin del.failed.att

\* C14: in the delete transaction, when the statement of a circular removes
\* its row, every attachment that was persisted with that circular as its
\* owner has been removed by an earlier statement of the transaction.
C14_AttachmentsDeletedFirst ==
    SearchedRemoved /\ del.outcome \in {"ok", "err"} =>
        \A k \in 1..Len(DeleteStatements) :
            DeleteStatements[k].table = "circ" /\ DeleteDone(k) =>
                \A a \in DOMAIN del.before.att :
                    del.before.att[a].id_circolare = DeleteStatements[k].id =>
                        \E j \in 1..(k - 1) :
                            /\ DeleteStatements[j] = [table |-> "att", id |-> a]
                            /\ DeleteDone(j)

\* a row that passes every per-row check
WellFormed(row) == ~Malformed(row)

\* an attachment marker whose id_doc is present and is a number
GoodLink(a) == a.idDoc.exists /\ ~ParseUint(a.idDoc.val).err

\* the attachments a row's markers stand for: the good markers, in source order
ExtractedAttachments(links) ==
    LET good == SelectSeq(links, GoodLink)
    IN  [k \in 1..Len(good) |->
            [Id |-> NumVal(good[k].idDoc.val), Title |-> good[k].text]]

\* the circular a well-formed row stands for
Extracted(row) ==
    [Id |-> NumVal(row.idDoc.val),
     Title |-> row.spans[1].FirstChild.Data,
     Category |-> LabelValue(row, Categoria).Data,
     PublishedDate |-> TimeParse(LabelValue(row, PubblicatoIl).Data).date,
     ValidUntilDate |-> TimeParse(LabelValue(row, ValidoFino).Data).date,
     Attachments |-> ExtractedAttachments(row.links)]

\* C15: what parseCirculars returns is the circulars of the rows that pass
\* every per-row check, one for each of them and in the order of the corpus,
\* and a second run on the same corpus returns the same sequence.
C15_ReturnsAcceptedRowsInOrder ==
    pc = "write" =>
        LET accepted == SelectSeq(corpus, WellFormed)
        IN  /\ circulars = [i \in 1..Len(accepted) |-> Extracted(accepted[i])]
            /\ parseCirculars(corpus).circulars = circulars

\* an extraction has returned two circulars for two rows, the row with the
\* greater identifier first and the two rows differing in their attachments
C15_TwoRowsInCorpusOrder ==
    /\ pc = "write"
    /\ Len(corpus) = 2
    /\ Len(circulars) = 2
    /\ circulars[1].Id > circulars[2].Id
    /\ circulars[1].Attachments # circulars[2].Attachments

\* C16: a marker whose identifier is no unsigned integer costs only its own
\* attachment: the circular of the row is returned, and its attachments are
\* those of all the other markers of the row, those after the bad one
\* included, in source order.
C16_BadAttachmentSkippedAlone ==
    pc = "write" =>
        LET accepted == SelectSeq(corpus, WellFormed)
        IN  /\ Len(circulars) = Len(accepted)
            /\ \A i \in 1..Len(accepted) :
                   circulars[i].Attachments =
                       ExtractedAttachments(accepted[i].links)

\* an extraction has returned the circular of a row in which a marker with
\* an unparseable identifier stands between two good markers
C16_BadMarkerBetweenGoodOnes ==
    /\ pc = "write"
    /\ \E i \in 1..Len(circulars) :
          /\ Len(circulars[i].Attachments) = 2
          /\ \E r \in 1..Len(corpus) :
                /\ Len(corpus[r].links) = 3
                /\ GoodLink(corpus[r].links[1])
                /\ corpus[r].links[2].idDoc.exists
                /\ ~GoodLink(corpus[r].links[2])
                /\ GoodLink(corpus[r].links[3])
                /\ circulars[i].Id = NumVal(corpus[r].idDoc.val)

\* a step that begins a cycle: the sleep has returned and nextTime is advanced
CycleBegins == cycle' = cycle + 1

\* C17: when a cycle begins, the next wake time is the time it begins at,
\* truncated to the minute, plus the configured period, and it is in the
\* future, also after a cycle that ran past its scheduled end.
C17_WakeFromCurrentTime ==
    [][CycleBegins =>
          /\ nextTime' = Truncate(now', Minute) + parseTimeout
          /\ nextTime' > now']_vars

\* C18: whatever the positive period, the scheduled next-run time of a cycle
\* is strictly after that of the cycle before.
C18_ScheduleAdvances == [][CycleBegins => nextTime' > nextTime]_vars

\* a step in which main calls deleteRemovedCirculars
CleanupAttempted == del'.ran /\ ~del.ran

\* a step that ends the cycle on a failure of the fetch, the extraction or
\* the write
CycleFailsEarly ==
    \/ fetched' = "err" /\ fetched # "err"
    \/ pc = "parse" /\ pc' # "write"
    \/ ins'.ran /\ ins'.err /\ ~ins.ran

\* C19: a cleanup is attempted only when the scheduled time is after the
\* next-cleanup time, and the attempt leaves the next-cleanup time at the
\* scheduled time truncated to the hour plus 6 hours whatever its outcome;
\* nothing else changes the next-cleanup time, so a failed cleanup is not
\* attempted again before the scheduled time has passed the new value; a
\* cycle ended by a failure of the fetch, the extraction or the write
\* attempts no cleanup and leaves the next-cleanup time as it was.
C19_CleanupTimeAdvancedFirst ==
    [][/\ CleanupAttempted =>
            /\ nextTime > nextCleanupTime
            /\ nextCleanupTime' = Truncate(nextTime, Hour) + 6 * Hour
       /\ nextCleanupTime' # nextCleanupTime => CleanupAttempted
       /\ CycleFailsEarly =>
            /\ ~del'.ran
            /\ nextCleanupTime' = nextCleanupTime
            /\ pc' # "cleanup"]_vars

\* the due cleanup of a cycle has returned an error at its Commit, leaving
\* its candidates in the store, and main has gone back to sleep
C19_DueCleanupFailed ==
    /\ pc = "wait"
    /\ del.ran
    /\ del.outcome = "err"
    /\ del.fail = "commit"
    /\ del.idsCircToRemove # <<>>
    /\ db = del.before
    /\ nextCleanupTime = Truncate(nextTime, Hour) + 6 * Hour

\* C20: after a successful write, each of the first 25 circulars that was
\* persisted before has the insertion timestamp it had, and each of their
\* attachments that was persisted before has the owner it had; the other
\* columns (title, category, the two dates; the attachment's title) are the
\* only ones the write may have changed.
C20_UpsertKeepsTimestampAndOwner ==
    Written =>
        \A i \in 1..Len(circulars) : InWindow(i) =>
            LET c == circulars[i]
            IN  /\ Persisted(ins.before.circ, c.Id) =>
                       db.circ[c.Id].aggiunta_il = ins.before.circ[c.Id].aggiunta_il
                /\ \A k \in 1..Len(c.Attachments) :
                       LET a == c.Attachments[k]
                       IN  Persisted(ins.before.att, a.Id) =>
                               db.att[a.Id].id_circolare =
                                   ins.before.att[a.Id].id_circolare

\* A circular among the first 25 was persisted at an earlier time with
\* another title and the write has changed it; one of its attachments was
\* persisted with another title and under another circular, and the write
\* has changed its title.
C20_UpsertChangedPersistedRows ==
    /\ Written
    /\ \E i \in 1..Len(circulars) :
          LET c == circulars[i]
          IN  /\ InWindow(i)
              /\ Persisted(ins.before.circ, c.Id)
              /\ ins.before.circ[c.Id].aggiunta_il # now
              /\ ins.before.circ[c.Id].titolo # db.circ[c.Id].titolo
              /\ \E k \in 1..Len(c.Attachments) :
                    LET a == c.Attachments[k]
                    IN  /\ Persisted(ins.before.att, a.Id)
                        /\ ins.before.att[a.Id].id_circolare # c.Id
                        /\ ins.before.att[a.Id].titolo # db.att[a.Id].titolo

====
